---------------------------- MODULE Spec2Model ----------------------------
(***************************************************************************)
(* Model of the nanobanana gateway (vigorous-x/nanobanana).                *)
(*                                                                         *)
(* Two backend variants exist in the repository:                           *)
(*   variant "A"  src/main.ts          (OpenRouter backend, callOpenRouter)*)
(*   variant "B"  src/unnamed/part_000 (Gemini backend, callGemini)        *)
(* Both serve a streaming route (:streamGenerateContent) and a batch route *)
(* (:generateContent).  One inbound request is followed from its arrival   *)
(* to its response; requests share no state, so one request is the whole   *)
(* state machine.                                                          *)
(*                                                                         *)
(* Strings are sequences of fragments.  Wherever the code looks inside a   *)
(* string (includes, startsWith, trim, regular expressions, the character  *)
(* loop of the stream) the fragments are single characters; fixed pieces   *)
(* the code only concatenates (a model identifier, a message prefix) are   *)
(* one fragment each.                                                      *)
(***************************************************************************)
EXTENDS Integers, Sequences, FiniteSets, TLC

VARIABLES
    variant,          \* "A" (src/main.ts) or "B" (src/unnamed/part_000)
    route,            \* "stream", "batch", or "direct" (dispatch called on its own)
    req,              \* the inbound request: headers and parsed JSON body
    pc,               \* position of the handler
    apiKey,           \* the credential the handler extracted
    relevantHistory,  \* the window extracted from req.contents
    messages,         \* the upstream-shaped messages handed to dispatch
    calls,            \* upstream calls issued so far (fetch invocations)
    replies,          \* upstream replies received so far
    result,           \* callOpenRouter's local `result` (last makeRequest value)
    outcome,          \* what dispatch returned or threw
    response,         \* the HTTP response of the route
    frames,           \* frames enqueued on the outbound stream
    cursor,           \* number of characters of the text already streamed
    closed,           \* controller.close() has run
    cancelled,        \* the client disconnected: the outbound stream was cancelled
    enqueueCalls,     \* calls of controller.enqueue made so far, failed ones included
    closeCalls        \* calls of controller.close() made so far, failed ones included

vars == <<variant, route, req, pc, apiKey, relevantHistory, messages, calls,
          replies, result, outcome, response, frames, cursor, closed,
          cancelled, enqueueCalls, closeCalls>>

(***************************************************************************)
(* Bounds of the model.                                                    *)
(***************************************************************************)
MaxHist == 2        \* longest inbound history (req.contents)
MaxHistFair == 1    \* longest inbound history under SpecFair

(***************************************************************************)
(* Strings.                                                                *)
(***************************************************************************)
Max(a, b) == IF a >= b THEN a ELSE b
Min(a, b) == IF a <= b THEN a ELSE b

EmptyStr == <<>>

\* String.prototype.substring on 1-based inclusive positions: positions
\* outside the string are clamped.
Sub(s, from, to) ==
    IF Max(from, 1) > Min(to, Len(s)) THEN <<>>
    ELSE SubSeq(s, Max(from, 1), Min(to, Len(s)))

\* String.prototype.includes
Includes(s, p) ==
    \E i \in 0..(Len(s) - Len(p)) : Sub(s, i + 1, i + Len(p)) = p

\* String.prototype.startsWith
StartsWith(s, p) ==
    /\ Len(p) <= Len(s)
    /\ Sub(s, 1, Len(p)) = p

UpperCase == <<"A", "B", "C", "D", "E", "F", "G", "H", "I", "J", "K", "L", "M",
               "N", "O", "P", "Q", "R", "S", "T", "U", "V", "W", "X", "Y", "Z">>
LowerCase == <<"a", "b", "c", "d", "e", "f", "g", "h", "i", "j", "k", "l", "m",
               "n", "o", "p", "q", "r", "s", "t", "u", "v", "w", "x", "y", "z">>

LowerChar(c) ==
    IF \E i \in 1..Len(UpperCase) : UpperCase[i] = c
    THEN LowerCase[CHOOSE i \in 1..Len(UpperCase) : UpperCase[i] = c]
    ELSE c

\* String.prototype.toLowerCase
ToLowerCase(s) == [i \in 1..Len(s) |-> LowerChar(s[i])]

WhiteSpace == {" ", "\n", "\t", "\r"}

\* String.prototype.trim
Trim(s) ==
    LET keep == {i \in 1..Len(s) : s[i] \notin WhiteSpace}
    IN  IF keep = {} THEN EmptyStr
        ELSE Sub(s, CHOOSE i \in keep : \A j \in keep : i <= j,
                       CHOOSE i \in keep : \A j \in keep : i >= j)

\* Array.prototype.slice(start, end) on a 0-based array
Slice(arr, start, end) ==
    LET n == Len(arr)
        k == IF start < 0 THEN Max(n + start, 0) ELSE Min(start, n)
        e == IF end < 0 THEN Max(n + end, 0) ELSE Min(end, n)
    IN  Sub(arr, k + 1, e)

\* String.prototype.replace(pattern, "") with a string pattern: the first
\* occurrence only.
ReplaceFirst(s, p) ==
    IF Includes(s, p)
    THEN LET i == CHOOSE i \in 0..(Len(s) - Len(p)) :
                     /\ Sub(s, i + 1, i + Len(p)) = p
                     /\ \A j \in 0..(i - 1) : Sub(s, j + 1, j + Len(p)) # p
         IN  Sub(s, 1, i) \o Sub(s, i + Len(p) + 1, Len(s))
    ELSE s


(***************************************************************************)
(* Inbound data: parts, messages, headers, requests.                       *)
(***************************************************************************)
\* A part of the caller's schema: { text?: string, inlineData?: {mimeType, data} }
Part(hasText, text, hasInline, mimeType, data) ==
    [hasText |-> hasText, text |-> text,
     hasInline |-> hasInline, mimeType |-> mimeType, data |-> data]
TextPart(s) == Part(TRUE, s, FALSE, EmptyStr, EmptyStr)
InlinePart(m, d) == Part(FALSE, EmptyStr, TRUE, m, d)
UnknownPart == Part(FALSE, EmptyStr, FALSE, EmptyStr, EmptyStr)

\* JavaScript truthiness of p.text: present and not the empty string
TextTruthy(p) == p.hasText /\ p.text # EmptyStr

Message(role, parts) == [role |-> role, parts |-> parts]

S_hi == <<"h", "i">>
S_ok_padded == <<" ", "o", "k", " ">>
S_image_png == <<"i", "m", "a", "g", "e", "/", "p", "n", "g">>
S_QUJD == <<"Q", "U", "J", "D">>

InboundMessages ==
    { Message("user", <<TextPart(S_hi)>>),
      Message("model", <<TextPart(S_ok_padded)>>),
      Message("user", <<TextPart(S_hi), InlinePart(S_image_png, S_QUJD)>>),
      Message("user", <<UnknownPart>>),
      Message("user", <<>>) }

Histories == UNION { [1..n -> InboundMessages] : n \in 0..MaxHist }

\* A request header: absent, or present with a value
Header(present, value) == [present |-> present, value |-> value]
NoHeader == Header(FALSE, EmptyStr)
S_Bearer == <<"B", "e", "a", "r", "e", "r", " ">>
S_key1 == <<"k", "1">>
S_key2 == <<"k", "2">>

AuthorizationHeaders == { NoHeader, Header(TRUE, S_Bearer \o S_key1) }
GoogApiKeyHeaders == { NoHeader, Header(TRUE, S_key2) }

\* The parsed JSON body { contents?: Message[] }
Body(hasContents, contents) == [hasContents |-> hasContents, contents |-> contents]

\* A client sends its key in one of the two headers, or in neither
HeaderPairs ==
    { hp \in AuthorizationHeaders \X GoogApiKeyHeaders :
        ~(hp[1].present /\ hp[2].present) }

Requests ==
    { [authorization |-> hp[1], googApiKey |-> hp[2], body |-> b] :
        hp \in HeaderPairs,
        b \in {Body(FALSE, <<>>)} \cup { Body(TRUE, h) : h \in Histories } }

(***************************************************************************)
(* Credential extraction (both variants, both routes).                     *)
(***************************************************************************)
\* req.headers.get("Authorization")?.replace("Bearer ", "")
\*   || req.headers.get("x-goog-api-key") || ""
extractApiKey(r) ==
    LET fromAuth == IF r.authorization.present
                    THEN ReplaceFirst(r.authorization.value, S_Bearer)
                    ELSE EmptyStr
        fromGoog == IF r.googApiKey.present THEN r.googApiKey.value ELSE EmptyStr
    IN  IF fromAuth # EmptyStr THEN fromAuth
        ELSE IF fromGoog # EmptyStr THEN fromGoog
        ELSE EmptyStr

(***************************************************************************)
(* History Windower.  Indices are 0-based as in the code; -1 is "none".    *)
(***************************************************************************)
\* Mutant: findIndex in place of findLastIndex (the first user message)
firstUserMessageIndex(fullHistory) ==
    LET hits == {i \in 0..(Len(fullHistory) - 1) : fullHistory[i + 1].role = "user"}
    IN  IF hits = {} THEN -1 ELSE CHOOSE i \in hits : \A j \in hits : i <= j

\* fullHistory.findLastIndex(msg => msg.role === 'user')
lastUserMessageIndex(fullHistory) ==
    LET hits == {i \in 0..(Len(fullHistory) - 1) : fullHistory[i + 1].role = "user"}
    IN  IF hits = {} THEN -1 ELSE CHOOSE i \in hits : \A j \in hits : j <= i

\* fullHistory.findLastIndex((msg, idx) => msg.role === 'model' && idx < lastUserMessageIndex)
lastModelMsgIndex(fullHistory, lastUser) ==
    LET hits == {i \in 0..(Len(fullHistory) - 1) :
                    fullHistory[i + 1].role = "model" /\ i < lastUser}
    IN  IF hits = {} THEN -1 ELSE CHOOSE i \in hits : \A j \in hits : j <= i

\* Variant A: slice(findLastIndex(...), lastUserMessageIndex + 1), the
\* findLastIndex value (-1 included) handed to slice unchanged; an empty
\* slice falls back to the single last user message.
relevantHistoryA(fullHistory) ==
    LET lastUser == lastUserMessageIndex(fullHistory)
        sliced == IF lastUser # -1
                  THEN Slice(fullHistory, lastModelMsgIndex(fullHistory, lastUser),
                             lastUser + 1)
                  ELSE <<>>
    IN  IF Len(sliced) = 0 /\ lastUser # -1
        THEN <<fullHistory[lastUser + 1]>>
        ELSE sliced

\* Variant B: slice(lastModelMsgIndex === -1 ? 0 : lastModelMsgIndex, lastUserMessageIndex + 1)
relevantHistoryB(fullHistory) ==
    LET lastUser == lastUserMessageIndex(fullHistory)
        lastModel == lastModelMsgIndex(fullHistory, lastUser)
    IN  IF lastUser # -1
        THEN Slice(fullHistory, IF lastModel = -1 THEN 0 ELSE lastModel, lastUser + 1)
        ELSE <<>>

extractWindow(v, fullHistory) ==
    IF v = "A" THEN relevantHistoryA(fullHistory) ELSE relevantHistoryB(fullHistory)

(***************************************************************************)
(* Part Codec, request direction.                                          *)
(***************************************************************************)
S_data_colon == <<"d", "a", "t", "a", ":">>
S_base64_marker == <<";", "b", "a", "s", "e", "6", "4", ",">>

\* `data:${mimeType};base64,${data}`
dataUri(mimeType, data) == S_data_colon \o mimeType \o S_base64_marker \o data

\* Variant A part: {type: "text", text} or {type: "image_url", image_url: {url}}
UpstreamPartA(type, text, url) == [type |-> type, text |-> text, url |-> url]

\* p.text ? {type:"text", text:p.text} : {type:"image_url", image_url:{url:`data:...`}}
toUpstreamA(p) ==
    IF TextTruthy(p)
    THEN UpstreamPartA("text", p.text, EmptyStr)
    ELSE UpstreamPartA("image_url", EmptyStr, dataUri(p.mimeType, p.data))

\* p.inlineData.mimeType on a part without inlineData raises a TypeError
toUpstreamThrowsA(p) == ~TextTruthy(p) /\ ~p.hasInline

\* Variant B: inlineData first, then truthy text (trimmed), else the part itself
toUpstreamB(p) ==
    IF p.hasInline THEN InlinePart(p.mimeType, p.data)
    ELSE IF TextTruthy(p) THEN TextPart(Trim(p.text))
    ELSE p

openrouterMessages(window) ==
    [i \in 1..Len(window) |->
        [role |-> IF window[i].role = "model" THEN "assistant" ELSE "user",
         content |-> [j \in 1..Len(window[i].parts) |-> toUpstreamA(window[i].parts[j])]]]

geminiMessages(window) ==
    [i \in 1..Len(window) |->
        [role |-> IF window[i].role = "model" THEN "assistant" ELSE window[i].role,
         parts |-> [j \in 1..Len(window[i].parts) |-> toUpstreamB(window[i].parts[j])]]]

\* The mapping raises (variant A only) when some part of the window has
\* neither truthy text nor inlineData.
mappingThrows(v, window) ==
    /\ v = "A"
    /\ \E i \in 1..Len(window) : \E j \in 1..Len(window[i].parts) :
           toUpstreamThrowsA(window[i].parts[j])

toUpstreamMessages(v, window) ==
    IF v = "A" THEN openrouterMessages(window) ELSE geminiMessages(window)

(***************************************************************************)
(* Upstream replies, variant A (OpenRouter).                               *)
(*   kind "transport": fetch rejected with Error(text)                     *)
(*   kind "text":      a response whose body is not JSON (raw body text)   *)
(*   kind "json":      a response whose body is JSON:                      *)
(*                     { error?: string | {message}, choices?: [{message}]}*)
(***************************************************************************)
\* responseData.error: absent ("none"), a string ("str") or an object
\* {message: s} ("obj")
ErrorField(t, s) == [t |-> t, s |-> s]
NoError == ErrorField("none", EmptyStr)

\* choices?.[0]?.message: absent, or {images?: [{image_url: {url}}], content?: string}
ChoiceMessage(has, images, hasContent, content) ==
    [has |-> has, images |-> images, hasContent |-> hasContent, content |-> content]
NoMessage == ChoiceMessage(FALSE, <<>>, FALSE, EmptyStr)

ReplyA(kind, ok, text, error, message) ==
    [kind |-> kind, ok |-> ok, text |-> text, error |-> error, message |-> message]

S_insufficient_quota == <<"i", "n", "s", "u", "f", "f", "i", "c", "i", "e", "n", "t", " ", "q", "u", "o", "t", "a">>
S_Rate_Limit == <<"R", "a", "t", "e", " ", "L", "i", "m", "i", "t">>
S_bad_gateway == <<"b", "a", "d", " ", "g", "a", "t", "e", "w", "a", "y">>
S_hello == <<"h", "e", "l", "l", "o">>
S_blank == <<" ", " ">>
S_image_uri == dataUri(S_image_png, S_QUJD)
S_image_uri2 == dataUri(S_image_png, S_hi)
S_image_uri_empty == dataUri(S_image_png, EmptyStr)
S_image_no_marker == <<"d", "a", "t", "a", ":", "i", "m", "a", "g", "e", "/", "p", "n", "g">>

ErrorTexts == { S_insufficient_quota, S_Rate_Limit, S_bad_gateway }

FailureRepliesA ==
    { ReplyA("transport", FALSE, e, NoError, NoMessage) :
        e \in {S_insufficient_quota, S_bad_gateway} }
    \cup { ReplyA("text", FALSE, S_insufficient_quota, NoError, NoMessage),
           ReplyA("text", TRUE, S_hello, NoError, NoMessage) }
    \cup { ReplyA("json", FALSE, EmptyStr, ErrorField("str", e), NoMessage) :
             e \in ErrorTexts \cup {EmptyStr} }
    \cup { ReplyA("json", FALSE, EmptyStr, ErrorField("obj", e), NoMessage) :
             e \in {S_insufficient_quota, S_bad_gateway} }
    \cup { ReplyA("json", FALSE, EmptyStr, NoError, NoMessage) }

SuccessMessagesA ==
    { NoMessage,
      ChoiceMessage(TRUE, <<S_image_uri>>, TRUE, S_hello),
      ChoiceMessage(TRUE, <<S_image_uri, S_image_uri2>>, FALSE, EmptyStr),
      ChoiceMessage(TRUE, <<>>, TRUE, S_image_uri2),
      ChoiceMessage(TRUE, <<S_image_uri_empty>>, FALSE, EmptyStr),
      ChoiceMessage(TRUE, <<>>, TRUE, S_image_no_marker),
      ChoiceMessage(TRUE, <<>>, TRUE, S_hello),
      ChoiceMessage(TRUE, <<>>, TRUE, S_blank),
      ChoiceMessage(TRUE, <<>>, FALSE, EmptyStr) }

SuccessRepliesA ==
    { ReplyA("json", TRUE, EmptyStr, NoError, m) : m \in SuccessMessagesA }

RepliesA == FailureRepliesA \cup SuccessRepliesA

(***************************************************************************)
(* Dispatcher, variant A: callOpenRouter.                                  *)
(***************************************************************************)
MODELS_free == "google/gemini-2.5-flash-image-preview:free"
MODELS_paid == "google/gemini-2.5-flash-image-preview"

\* The message of the TypeError that Response.text() rejects with once
\* Response.json() has read the body (a body can be consumed only once).
S_body_consumed == <<"Body already consumed.">>

\* makeRequest(currentModel): {responseData, currentModel, ok}.
\*  - fetch rejects: the catch returns {error: error.message}, ok false.
\*  - the body is not JSON: apiResponse.json() rejects after having read the
\*    body, so the apiResponse.text() of the inner catch rejects as well and
\*    the outer catch returns {error: <that TypeError's message>}, ok false.
\*  - otherwise responseData is the parsed body and ok is apiResponse.ok.
makeRequest(reply, currentModel) ==
    IF reply.kind = "transport"
    THEN [error |-> ErrorField("str", reply.text), message |-> NoMessage,
          currentModel |-> currentModel, ok |-> FALSE]
    ELSE IF reply.kind = "text"
    THEN [error |-> ErrorField("str", S_body_consumed), message |-> NoMessage,
          currentModel |-> currentModel, ok |-> FALSE]
    ELSE [error |-> reply.error, message |-> reply.message,
          currentModel |-> currentModel, ok |-> reply.ok]

NoResult == [error |-> NoError, message |-> NoMessage, currentModel |-> "", ok |-> FALSE]

\* JSON.stringify of the error value when it is not a string:
\* an object {message: s}, or '' for an absent error.
jsonStringify(error) ==
    IF error.t = "obj" THEN <<"{\"message\":\"">> \o error.s \o <<"\"}">>
    ELSE <<"\"", "\"">>

\* typeof error === 'string' ? error : JSON.stringify(error || '')
errorMessage(res) ==
    IF res.error.t = "str" THEN res.error.s ELSE jsonStringify(res.error)

QuotaPhrases ==
    { <<"q", "u", "o", "t", "a", " ", "e", "x", "h", "a", "u", "s", "t", "e", "d">>,
      <<"i", "n", "s", "u", "f", "f", "i", "c", "i", "e", "n", "t", " ", "q", "u", "o", "t", "a">>,
      <<"f", "r", "e", "e", " ", "q", "u", "o", "t", "a">>,
      <<"r", "a", "t", "e", " ", "l", "i", "m", "i", "t">>,
      <<"d", "a", "i", "l", "y", " ", "l", "i", "m", "i", "t">> }

\* [...].some(phrase => errorMessage.toLowerCase().includes(phrase))
\*   && result.currentModel === MODELS.free
isFreeQuotaExhausted(res) ==
    /\ \E phrase \in QuotaPhrases : Includes(ToLowerCase(errorMessage(res)), phrase)
    /\ res.currentModel = MODELS_free

\* `${result.responseData.error || 'Unknown error'}`
errorDetails(res) ==
    IF res.error.t = "str" /\ res.error.s # EmptyStr THEN res.error.s
    ELSE IF res.error.t = "obj" THEN <<"[object Object]">>
    ELSE <<"Unknown error">>

Outcome(st, type, content) == [st |-> st, type |-> type, content |-> content]
NoOutcome == Outcome("none", "", EmptyStr)
Returned(type, content) == Outcome("returned", type, content)
Threw(message) == Outcome("threw", "error", message)

S_no_content == <<"[", "U+6A21", "U+578B", "U+6CA1", "U+6709", "U+8FD4", "U+56DE",
                  "U+6709", "U+6548", "U+5185", "U+5BB9", "]">>
S_data_image == <<"d", "a", "t", "a", ":", "i", "m", "a", "g", "e", "/">>

\* Mutant: the text branch tried before the image branches
normalizeATextFirst(message) ==
    IF message.has /\ message.hasContent /\ Trim(message.content) # EmptyStr
       /\ ~StartsWith(message.content, S_data_image)
    THEN Returned("text", message.content)
    ELSE IF message.has /\ Len(message.images) > 0 /\ message.images[1] # EmptyStr
    THEN Returned("image", message.images[1])
    ELSE IF message.has /\ message.hasContent /\ StartsWith(message.content, S_data_image)
    THEN Returned("image", message.content)
    ELSE Returned("text", S_no_content)

\* Lines 107-125: images[0].image_url.url, then a content that is a
\* data:image/ URI, then a non-blank content, then the placeholder.
normalizeA(message) ==
    IF message.has /\ Len(message.images) > 0 /\ message.images[1] # EmptyStr
    THEN Returned("image", message.images[1])
    ELSE IF message.has /\ message.hasContent /\ StartsWith(message.content, S_data_image)
    THEN Returned("image", message.content)
    ELSE IF message.has /\ message.hasContent /\ Trim(message.content) # EmptyStr
    THEN Returned("text", message.content)
    ELSE Returned("text", S_no_content)

\* Lines 97-125: the final `result` decides what callOpenRouter returns or throws.
finishOpenRouter(res) ==
    IF ~res.ok
    THEN Threw(<<"OpenRouter API error with model ", res.currentModel, ": ">>
               \o errorDetails(res))
    ELSE normalizeA(res.message)

\* Lines 72-95: whether the fallback request is made after the first one.
needsFallback(res) == ~res.ok /\ isFreeQuotaExhausted(res)

Call(model, msgs, key) == [model |-> model, messages |-> msgs, apiKey |-> key]

(***************************************************************************)
(* Upstream replies, variant B (Gemini).                                   *)
(*   kind "transport": fetch rejected with Error(text)                     *)
(*   kind "text":      a response whose body (text) is not JSON            *)
(*   kind "json":      a response whose body (raw form: text) is JSON with *)
(*                     candidates?.[0]?.content?.parts                     *)
(***************************************************************************)
ReplyB(kind, ok, statusText, text, hasParts, parts) ==
    [kind |-> kind, ok |-> ok, statusText |-> statusText, text |-> text,
     hasParts |-> hasParts, parts |-> parts]

S_image_slash == <<"i", "m", "a", "g", "e", "/">>
S_video_mp4 == <<"v", "i", "d", "e", "o", "/", "m", "p", "4">>
S_status_429 == <<"Too Many Requests">>
S_status_200 == <<"OK">>

FailureRepliesB ==
    { ReplyB("transport", FALSE, EmptyStr, S_bad_gateway, FALSE, <<>>),
      ReplyB("text", FALSE, S_status_429, S_insufficient_quota, FALSE, <<>>),
      ReplyB("text", TRUE, S_status_200, S_hello, FALSE, <<>>),
      ReplyB("json", TRUE, S_status_200, EmptyStr, FALSE, <<>>),
      ReplyB("json", TRUE, S_status_200, EmptyStr, TRUE, <<>>) }

SuccessPartsB ==
    { <<TextPart(S_hello)>>,
      <<TextPart(S_hello), InlinePart(S_image_png, S_QUJD)>>,
      <<InlinePart(S_image_png, S_QUJD), InlinePart(S_image_png, S_hi)>>,
      <<TextPart(S_ok_padded), TextPart(S_hi)>>,
      <<TextPart(S_blank)>>,
      <<InlinePart(S_video_mp4, S_QUJD)>>,
      <<InlinePart(S_image_png, EmptyStr)>>,
      <<UnknownPart>> }

SuccessRepliesB ==
    { ReplyB("json", TRUE, S_status_200, EmptyStr, TRUE, ps) : ps \in SuccessPartsB }

RepliesB == FailureRepliesB \cup SuccessRepliesB

(***************************************************************************)
(* Dispatcher, variant B: callGemini.                                      *)
(***************************************************************************)
GEMINI_MODEL == "gemini-2.5-flash-image-preview"

\* The message of the SyntaxError that Response.json() rejects with.
S_not_json == <<"Unexpected token in JSON">>

\* Lines 55-61: every image part overwrites imageContent, so the last one stays.
imageContent(parts) ==
    LET hits == {i \in 1..Len(parts) :
                    parts[i].hasInline /\ StartsWith(parts[i].mimeType, S_image_slash)}
    IN  IF hits = {} THEN EmptyStr
        ELSE LET i == CHOOSE i \in hits : \A j \in hits : j <= i
             IN  dataUri(parts[i].mimeType, parts[i].data)

\* Lines 63-65: textContent += part.text.trim() + "\n" for every non-blank text
RECURSIVE textContent(_)
textContent(parts) ==
    IF parts = <<>> THEN EmptyStr
    ELSE LET p == parts[Len(parts)]
             before == textContent(Sub(parts, 1, Len(parts) - 1))
         IN  IF TextTruthy(p) /\ Trim(p.text) # EmptyStr
             THEN before \o Trim(p.text) \o <<"\n">>
             ELSE before

\* Lines 48-76 without the closing placeholder: the trimmed text is returned
\* whatever it holds
normalizeBNoPlaceholder(reply) ==
    IF ~reply.hasParts \/ Len(reply.parts) = 0
    THEN Threw(<<"Gemini response has no valid parts">>)
    ELSE IF imageContent(reply.parts) # EmptyStr
    THEN Returned("image", imageContent(reply.parts))
    ELSE Returned("text", Trim(textContent(reply.parts)))

\* Lines 48-76
normalizeB(reply) ==
    IF ~reply.hasParts \/ Len(reply.parts) = 0
    THEN Threw(<<"Gemini response has no valid parts">>)
    ELSE IF imageContent(reply.parts) # EmptyStr
    THEN Returned("image", imageContent(reply.parts))
    ELSE IF Trim(textContent(reply.parts)) # EmptyStr
    THEN Returned("text", Trim(textContent(reply.parts)))
    ELSE Returned("text", S_no_content)

\* Lines 31-76: what callGemini returns or throws once the fetch has settled.
finishGemini(reply) ==
    IF reply.kind = "transport" THEN Threw(reply.text)
    ELSE IF ~reply.ok
    THEN Threw(<<"Gemini API error: ">> \o reply.statusText \o <<" - ">> \o reply.text)
    ELSE IF reply.kind = "text" THEN Threw(S_not_json)
    ELSE normalizeB(reply)

(***************************************************************************)
(* Data-URI decoding of an image result.                                   *)
(***************************************************************************)
LineTerminators == {"\n", "\r"}

\* First index >= from holding a line terminator, or Len(s) + 1
lineEnd(s, from) ==
    LET hits == {i \in from..Len(s) : s[i] \in LineTerminators}
    IN  IF hits = {} THEN Len(s) + 1 ELSE CHOOSE i \in hits : \A j \in hits : i <= j

\* Start indices of ";base64," that data:(.+);base64,(.*) can use when the
\* match starts at index i: at least one character after "data:", all on
\* the line of the match.
markerStarts(s, i) ==
    {k \in (i + Len(S_data_colon) + 1)..(lineEnd(s, i + Len(S_data_colon)) - Len(S_base64_marker)) :
        Sub(s, k, k + Len(S_base64_marker) - 1) = S_base64_marker}

\* Whether data:(.+);base64,(.*) matches starting at index i
matchesAt(s, i) ==
    /\ Sub(s, i, i + Len(S_data_colon) - 1) = S_data_colon
    /\ markerStarts(s, i) # {}

\* (.+) is greedy: the last usable ";base64,"
markerAt(s, i) == CHOOSE k \in markerStarts(s, i) : \A j \in markerStarts(s, i) : j <= k

Undefined == <<"undefined">>
Decoded(matched, mimeType, data) == [matched |-> matched, mimeType |-> mimeType, data |-> data]

\* Variant A: content.match(/^data:(.+);base64,(.*)$/); neither . nor $
\* accepts a line terminator, so the whole string must be one line.
matchDataUri(content) ==
    IF matchesAt(content, 1) /\ lineEnd(content, 1) = Len(content) + 1
    THEN Decoded(TRUE,
                 Sub(content, Len(S_data_colon) + 1, markerAt(content, 1) - 1),
                 Sub(content, markerAt(content, 1) + Len(S_base64_marker), Len(content)))
    ELSE Decoded(FALSE, Undefined, Undefined)

\* content.split(/data:(.+);base64,(.*)/): the text before each match, the
\* two groups of the match, and at last the text after the last match.
RECURSIVE splitDataUri(_)
splitDataUri(s) ==
    LET starts == {i \in 1..Len(s) : matchesAt(s, i)}
    IN  IF starts = {} THEN <<s>>
        ELSE LET i == CHOOSE i \in starts : \A j \in starts : i <= j
                 k == markerAt(s, i)
                 e == lineEnd(s, i + Len(S_data_colon))
             IN  << Sub(s, 1, i - 1),
                    Sub(s, i + Len(S_data_colon), k - 1),
                    Sub(s, k + Len(S_base64_marker), e - 1) >>
                 \o splitDataUri(Sub(s, e, Len(s)))

\* Array.prototype.filter(Boolean) on strings: the empty ones go
filterBoolean(arr) == SelectSeq(arr, LAMBDA x : x # EmptyStr)

\* Variant B: const [mimeType, base64Data] = content.split(...).filter(Boolean)
splitDecode(content) ==
    LET pieces == filterBoolean(splitDataUri(content))
    IN  Decoded(Len(pieces) >= 2,
                IF Len(pieces) >= 1 THEN pieces[1] ELSE Undefined,
                IF Len(pieces) >= 2 THEN pieces[2] ELSE Undefined)

(***************************************************************************)
(* Responses and stream frames.                                            *)
(***************************************************************************)
\* A part of the outbound payload: {text} or {inlineData: {mimeType, data}}
OutText(s) == [kind |-> "text", text |-> s, mimeType |-> EmptyStr, data |-> EmptyStr]
OutInline(m, d) == [kind |-> "inlineData", text |-> EmptyStr, mimeType |-> m, data |-> d]

\* kind "error":  createJsonErrorResponse(message, status)
\* kind "json":   the batch payload, parts = responsePayload.candidates
\* kind "stream": the text/event-stream response
Response(status, kind, error, parts) ==
    [status |-> status, kind |-> kind, error |-> error, parts |-> parts]
NoResponse == Response(0, "none", EmptyStr, <<>>)
\* Mutant: the status argument dropped, the default 500 of the signature used
createJsonErrorResponseDefaultStatus(message, statusCode) ==
    Response(500, "error", message, <<>>)

createJsonErrorResponse(message, statusCode) == Response(statusCode, "error", message, <<>>)

\* One `data: ...\n\n` frame of the stream:
\*   "content"  a candidate whose parts are `parts` (no finishReason STOP)
\*   "finish"   the candidate with finishReason "STOP" and no parts
\*   "done"     {done: true}
\*   "sentinel" data: [DONE]
\*   "error"    {error: {message, code: 500}}
Frame(kind, parts, message) == [kind |-> kind, parts |-> parts, message |-> message]

S_lead_in == <<"U+597D", "U+7684", "U+FF0C", "U+56FE", "U+7247", "U+5DF2",
               "U+751F", "U+6210", "U+FF1A">>
S_image_failed == <<"[", "U+56FE", "U+7247", "U+751F", "U+6210", "U+5931",
                    "U+8D25", "]">>

(***************************************************************************)
(* Response Normalizer, batch mode.                                        *)
(***************************************************************************)
\* Lines 214-225 without the else branch of `if (matches)`: the groups are
\* used whether the match succeeded or not
finalPartsANoMarker(res) ==
    IF res.type = "image"
    THEN << OutText(S_lead_in),
            OutInline(matchDataUri(res.content).mimeType,
                      matchDataUri(res.content).data) >>
    ELSE << OutText(res.content) >>

\* Variant A, lines 214-225
finalPartsA(res) ==
    IF res.type = "image"
    THEN IF matchDataUri(res.content).matched
         THEN << OutText(S_lead_in),
                 OutInline(matchDataUri(res.content).mimeType,
                           matchDataUri(res.content).data) >>
         ELSE << OutText(S_image_failed) >>
    ELSE << OutText(res.content) >>

\* Variant B, lines 247-258: mimeType && base64Data
finalPartsB(res) ==
    IF res.type = "image"
    THEN IF splitDecode(res.content).matched
         THEN << OutText(S_lead_in),
                 OutInline(splitDecode(res.content).mimeType,
                           splitDecode(res.content).data) >>
         ELSE << OutText(S_image_failed) >>
    ELSE << OutText(res.content) >>

finalParts(v, res) == IF v = "A" THEN finalPartsA(res) ELSE finalPartsB(res)

\* { candidates: [{ content: { role: "model", parts: finalParts },
\*                  finishReason: "STOP", index: 0 }], usageMetadata }
Candidate(role, parts, finishReason, index) ==
    [role |-> role, parts |-> parts, finishReason |-> finishReason, index |-> index]
responsePayload(parts) == << Candidate("model", parts, "STOP", 0) >>

(***************************************************************************)
(* Stream Synthesizer.                                                     *)
(***************************************************************************)
\* The text the character loop walks through.
\* Variant A: (type === 'image') ? lead-in : content.
\* Variant B: the loop runs for type === 'text' only.
textToStream(v, res) ==
    IF v = "A" THEN (IF res.type = "image" THEN S_lead_in ELSE res.content)
    ELSE (IF res.type = "text" THEN res.content ELSE EmptyStr)

\* The frame carrying the image, sent after the character loop.
\* Variant A sends it only when the regular expression matched; variant B
\* sends whatever the split gave.
imageFrames(v, res) ==
    IF res.type # "image" THEN <<>>
    ELSE IF v = "A"
    THEN (IF matchDataUri(res.content).matched
          THEN << Frame("content",
                        << OutInline(matchDataUri(res.content).mimeType,
                                     matchDataUri(res.content).data) >>, EmptyStr) >>
          ELSE <<>>)
    ELSE << Frame("content",
                  << OutInline(splitDecode(res.content).mimeType,
                               splitDecode(res.content).data) >>, EmptyStr) >>

\* What follows the image frame: the finish chunk and the [DONE] frame;
\* variant B sends {done: true} between the two.
closingFramesA == << Frame("finish", <<>>, EmptyStr), Frame("sentinel", <<>>, EmptyStr) >>
closingFramesB == << Frame("finish", <<>>, EmptyStr), Frame("done", <<>>, EmptyStr),
                     Frame("sentinel", <<>>, EmptyStr) >>
closingFrames(v) == IF v = "A" THEN closingFramesA ELSE closingFramesB

\* The frame of the catch block
errorFrames(message) == << Frame("error", <<>>, message) >>

(***************************************************************************)
(* Initial states.                                                         *)
(***************************************************************************)
Variants == {"A", "B"}

InitRoute ==
    /\ variant \in Variants
    /\ route \in {"stream", "batch"}
    /\ req \in Requests
    /\ pc = "start"
    /\ apiKey = EmptyStr
    /\ relevantHistory = <<>>
    /\ messages = <<>>
    /\ calls = <<>>
    /\ replies = <<>>
    /\ result = NoResult
    /\ outcome = NoOutcome
    /\ response = NoResponse
    /\ frames = <<>>
    /\ cursor = 0
    /\ closed = FALSE
    /\ cancelled = FALSE
    /\ enqueueCalls = 0
    /\ closeCalls = 0

(***************************************************************************)
(* The route handler up to the dispatch (both routes, both variants).      *)
(* Variant A: src/main.ts 139-154 and 196-210;                             *)
(* variant B: src/unnamed/part_000 98-136 and 212-241.                     *)
(***************************************************************************)
S_key_missing == <<"API key is missing.">>
S_contents_missing == <<"Invalid request: 'contents' array is missing.">>
S_no_user_message == <<"No user message found.">>
S_type_error == <<"Cannot read properties of undefined (reading 'mimeType')">>

\* Mutant: the credential check left out of the handler
earlyResponseNoKeyCheck(v, r) ==
    IF ~r.body.hasContents \/ Len(r.body.contents) = 0
    THEN createJsonErrorResponse(S_contents_missing, 400)
    ELSE IF Len(extractWindow(v, r.body.contents)) = 0
    THEN createJsonErrorResponse(S_no_user_message, 400)
    ELSE IF mappingThrows(v, extractWindow(v, r.body.contents))
    THEN createJsonErrorResponse(S_type_error, 500)
    ELSE NoResponse

\* Mutant: the empty-window check left out of the handler
earlyResponseNoWindowCheck(v, r) ==
    IF extractApiKey(r) = EmptyStr
    THEN createJsonErrorResponse(S_key_missing, 401)
    ELSE IF ~r.body.hasContents \/ Len(r.body.contents) = 0
    THEN createJsonErrorResponse(S_contents_missing, 400)
    ELSE IF mappingThrows(v, extractWindow(v, r.body.contents))
    THEN createJsonErrorResponse(S_type_error, 500)
    ELSE NoResponse

\* The response with which the handler ends before any dispatch, or
\* NoResponse when the request goes on to the dispatch.
earlyResponse(v, r) ==
    IF extractApiKey(r) = EmptyStr
    THEN createJsonErrorResponse(S_key_missing, 401)
    ELSE IF ~r.body.hasContents \/ Len(r.body.contents) = 0
    THEN createJsonErrorResponse(S_contents_missing, 400)
    ELSE IF Len(extractWindow(v, r.body.contents)) = 0
    THEN createJsonErrorResponse(S_no_user_message, 400)
    ELSE IF mappingThrows(v, extractWindow(v, r.body.contents))
    THEN createJsonErrorResponse(S_type_error, 500)
    ELSE NoResponse

handleRequest ==
    /\ pc = "start"
    /\ apiKey' = extractApiKey(req)
    /\ relevantHistory' =
          IF extractApiKey(req) # EmptyStr /\ req.body.hasContents
          THEN extractWindow(variant, req.body.contents)
          ELSE <<>>
    /\ IF earlyResponse(variant, req) # NoResponse
       THEN /\ response' = earlyResponse(variant, req)
            /\ messages' = <<>>
            /\ pc' = "done"
       ELSE /\ messages' = toUpstreamMessages(variant, extractWindow(variant, req.body.contents))
            /\ response' = IF route = "stream"
                           THEN Response(200, "stream", EmptyStr, <<>>)
                           ELSE NoResponse
            /\ pc' = "dispatch"
    /\ UNCHANGED <<variant, route, req, calls, replies, result, outcome, frames,
                   cursor, closed, cancelled,
                   enqueueCalls, closeCalls>>

(***************************************************************************)
(* Dispatch actions.                                                       *)
(***************************************************************************)
S_empty_key_A == <<"callOpenRouter received an empty apiKey.">>
S_empty_key_B == <<"callGemini received an empty apiKey.">>

\* src/main.ts 9-69: the credential check, then the first makeRequest(MODELS.free)
callOpenRouter ==
    /\ pc = "dispatch"
    /\ variant = "A"
    /\ IF apiKey = EmptyStr
       THEN /\ outcome' = Threw(S_empty_key_A)
            /\ pc' = "dispatched"
            /\ calls' = calls
       ELSE /\ calls' = Append(calls, Call(MODELS_free, messages, apiKey))
            /\ pc' = "awaitPrimary"
            /\ outcome' = outcome
    /\ UNCHANGED <<variant, route, req, apiKey, relevantHistory, messages, replies,
                   result, response, frames, cursor, closed, cancelled,
                   enqueueCalls, closeCalls>>

\* src/main.ts 69-125: the first request settles; either the fallback
\* request is made or callOpenRouter finishes on this result.
primaryReply ==
    /\ pc = "awaitPrimary"
    /\ \E reply \in RepliesA :
          /\ replies' = Append(replies, reply)
          /\ result' = makeRequest(reply, MODELS_free)
          /\ IF needsFallback(makeRequest(reply, MODELS_free))
             THEN /\ calls' = Append(calls, Call(MODELS_paid, messages, apiKey))
                  /\ pc' = "awaitFallback"
                  /\ outcome' = outcome
             ELSE /\ calls' = calls
                  /\ pc' = "dispatched"
                  /\ outcome' = finishOpenRouter(makeRequest(reply, MODELS_free))
    /\ UNCHANGED <<variant, route, req, apiKey, relevantHistory, messages,
                   response, frames, cursor, closed, cancelled,
                   enqueueCalls, closeCalls>>

\* src/main.ts 93-125: the fallback request settles and callOpenRouter finishes.
fallbackReply ==
    /\ pc = "awaitFallback"
    /\ \E reply \in RepliesA :
          /\ replies' = Append(replies, reply)
          /\ result' = makeRequest(reply, MODELS_paid)
          /\ outcome' = finishOpenRouter(makeRequest(reply, MODELS_paid))
    /\ pc' = "dispatched"
    /\ UNCHANGED <<variant, route, req, apiKey, relevantHistory, messages, calls,
                   response, frames, cursor, closed, cancelled,
                   enqueueCalls, closeCalls>>

\* src/unnamed/part_000 14-38: the credential check, then the fetch
callGemini ==
    /\ pc = "dispatch"
    /\ variant = "B"
    /\ IF apiKey = EmptyStr
       THEN /\ outcome' = Threw(S_empty_key_B)
            /\ pc' = "dispatched"
            /\ calls' = calls
       ELSE /\ calls' = Append(calls, Call(GEMINI_MODEL, messages, apiKey))
            /\ pc' = "awaitGemini"
            /\ outcome' = outcome
    /\ UNCHANGED <<variant, route, req, apiKey, relevantHistory, messages, replies,
                   result, response, frames, cursor, closed, cancelled,
                   enqueueCalls, closeCalls>>

\* src/unnamed/part_000 38-76: the fetch settles and callGemini finishes.
geminiReply ==
    /\ pc = "awaitGemini"
    /\ \E reply \in RepliesB :
          /\ replies' = Append(replies, reply)
          /\ outcome' = finishGemini(reply)
    /\ pc' = "dispatched"
    /\ UNCHANGED <<variant, route, req, apiKey, relevantHistory, messages, calls,
                   result, response, frames, cursor, closed, cancelled,
                   enqueueCalls, closeCalls>>

(***************************************************************************)
(* After the dispatch: the batch reply and the stream.                     *)
(***************************************************************************)
\* Batch route: the payload on a result, createJsonErrorResponse(e.message, 500)
\* on an exception.
batchRespond ==
    /\ pc = "dispatched"
    /\ route = "batch"
    /\ response' = IF outcome.st = "threw"
                   THEN createJsonErrorResponse(outcome.content, 500)
                   ELSE Response(200, "json", EmptyStr,
                                 responsePayload(finalParts(variant, outcome)))
    /\ pc' = "done"
    /\ UNCHANGED <<variant, route, req, apiKey, relevantHistory, messages, calls,
                   replies, result, outcome, frames, cursor, closed, cancelled,
                   enqueueCalls, closeCalls>>

\* Stream route: one turn of the character loop (a chunk, then the 2 ms pause).
streamChar ==
    /\ pc = "dispatched"
    /\ route = "stream"
    /\ outcome.st = "returned"
    /\ cursor < Len(textToStream(variant, outcome))
    /\ ~cancelled
    /\ frames' = Append(frames,
                        Frame("content",
                              <<OutText(<<textToStream(variant, outcome)[cursor + 1]>>)>>,
                              EmptyStr))
    /\ cursor' = cursor + 1
    /\ enqueueCalls' = enqueueCalls + 1
    /\ UNCHANGED <<variant, route, req, pc, apiKey, relevantHistory, messages, calls,
                   replies, result, outcome, response, closed, cancelled,
                   closeCalls>>

\* Stream route: after the loop, the image frame, the closing frames and
\* controller.close() of the finally block.
streamFinish ==
    /\ pc = "dispatched"
    /\ route = "stream"
    /\ outcome.st = "returned"
    /\ cursor = Len(textToStream(variant, outcome))
    /\ ~cancelled
    /\ frames' = frames \o imageFrames(variant, outcome) \o closingFrames(variant)
    /\ enqueueCalls' = enqueueCalls + Len(imageFrames(variant, outcome))
                                     + Len(closingFrames(variant))
    /\ closed' = TRUE
    /\ closeCalls' = closeCalls + 1
    /\ pc' = "done"
    /\ UNCHANGED <<variant, route, req, apiKey, relevantHistory, messages, calls,
                   replies, result, outcome, response, cursor, cancelled>>

\* The catch block with a controller.close() of its own, before the one of
\* the finally block: the stream is closed twice
streamErrorClosesTwice ==
    /\ pc = "dispatched"
    /\ route = "stream"
    /\ outcome.st = "threw"
    /\ ~cancelled
    /\ frames' = frames \o errorFrames(outcome.content)
    /\ enqueueCalls' = enqueueCalls + 1
    /\ closed' = TRUE
    /\ closeCalls' = closeCalls + 2
    /\ pc' = "done"
    /\ UNCHANGED <<variant, route, req, apiKey, relevantHistory, messages, calls,
                   replies, result, outcome, response, cursor, cancelled>>

\* Stream route: callOpenRouter / callGemini threw; the catch block sends the
\* error frame and the finally block closes the stream.
streamError ==
    /\ pc = "dispatched"
    /\ route = "stream"
    /\ outcome.st = "threw"
    /\ ~cancelled
    /\ frames' = frames \o errorFrames(outcome.content)
    /\ enqueueCalls' = enqueueCalls + 1
    /\ closed' = TRUE
    /\ closeCalls' = closeCalls + 1
    /\ pc' = "done"
    /\ UNCHANGED <<variant, route, req, apiKey, relevantHistory, messages, calls,
                   replies, result, outcome, response, cursor, cancelled>>

\* The producer is suspended at an await: in callOpenRouter / callGemini
\* (the upstream call is in flight), or in the 2 ms pause after a character.
awaitingUpstream == pc \in {"awaitPrimary", "awaitFallback", "awaitGemini"}
pausing ==
    /\ pc = "dispatched"
    /\ outcome.st = "returned"
    /\ cursor >= 1
    /\ cursor <= Len(textToStream(variant, outcome))

\* The client disconnects while the producer is suspended: the runtime
\* cancels the response stream.  The underlying source passed to
\* new ReadableStream has a start method only: no cancel method runs, and
\* the fetch of callOpenRouter / callGemini was given no abort signal, so
\* nothing of the producer's state changes.
cancel ==
    /\ route = "stream"
    /\ ~cancelled
    /\ awaitingUpstream \/ pausing
    /\ cancelled' = TRUE
    /\ UNCHANGED <<variant, route, req, pc, apiKey, relevantHistory, messages, calls,
                   replies, result, outcome, response, frames, cursor, closed,
                   enqueueCalls, closeCalls>>

\* The calls of controller.enqueue the producer makes when it resumes on a
\* cancelled stream.  Each one throws a TypeError: the chunk of the try block
\* it resumed at, then (after a returned result) the error chunk of the catch
\* block; after a failed dispatch the error chunk is the first and only one.
enqueuesAfterCancel(res) == IF res.st = "returned" THEN 2 ELSE 1

\* Stream route, resumed after the cancellation: the enqueue calls above
\* throw, and so does controller.close() of the finally block; no frame is
\* added and start() ends rejected.
streamCancelled ==
    /\ pc = "dispatched"
    /\ route = "stream"
    /\ cancelled
    /\ enqueueCalls' = enqueueCalls + enqueuesAfterCancel(outcome)
    /\ closeCalls' = closeCalls + 1
    /\ pc' = "done"
    /\ UNCHANGED <<variant, route, req, apiKey, relevantHistory, messages, calls,
                   replies, result, outcome, response, frames, cursor, closed,
                   cancelled>>

(***************************************************************************)
(* The dispatcher on its own: callOpenRouter / callGemini called with any  *)
(* credential (the empty one included) and a window already converted.     *)
(***************************************************************************)
DirectWindows ==
    { << Message("user", <<TextPart(S_hi)>>) >>,
      << Message("model", <<TextPart(S_ok_padded)>>),
         Message("user", <<TextPart(S_hi), InlinePart(S_image_png, S_QUJD)>>) >> }

InitDirect ==
    /\ variant \in Variants
    /\ route = "direct"
    /\ req = [authorization |-> NoHeader, googApiKey |-> NoHeader,
              body |-> Body(FALSE, <<>>)]
    /\ pc = "dispatch"
    /\ apiKey \in {EmptyStr, S_key1}
    /\ relevantHistory \in DirectWindows
    /\ messages = toUpstreamMessages(variant, relevantHistory)
    /\ calls = <<>>
    /\ replies = <<>>
    /\ result = NoResult
    /\ outcome = NoOutcome
    /\ response = NoResponse
    /\ frames = <<>>
    /\ cursor = 0
    /\ closed = FALSE
    /\ cancelled = FALSE
    /\ enqueueCalls = 0
    /\ closeCalls = 0

Init == InitRoute \/ InitDirect

Next ==
    \/ handleRequest
    \/ callOpenRouter
    \/ primaryReply
    \/ fallbackReply
    \/ callGemini
    \/ geminiReply
    \/ batchRespond
    \/ streamChar
    \/ streamFinish
    \/ streamError
    \/ cancel
    \/ streamCancelled

Spec == Init /\ [][Next]_vars

(***************************************************************************)
(* The streaming route on its own, under fair scheduling: the requests of  *)
(* the route with histories of at most MaxHistFair messages, the key (if   *)
(* any) in the Authorization header.                                       *)
(***************************************************************************)
StreamRequests ==
    { r \in Requests :
        ~r.googApiKey.present /\ Len(r.body.contents) <= MaxHistFair }

InitStream ==
    /\ InitRoute
    /\ route = "stream"
    /\ req \in StreamRequests

NextStream ==
    \/ handleRequest
    \/ callOpenRouter
    \/ primaryReply
    \/ fallbackReply
    \/ callGemini
    \/ geminiReply
    \/ streamChar
    \/ streamFinish
    \/ streamError
    \/ cancel
    \/ streamCancelled

\* What the program does by itself: every step but the client's disconnect
Producer ==
    \/ handleRequest
    \/ callOpenRouter
    \/ primaryReply
    \/ fallbackReply
    \/ callGemini
    \/ geminiReply
    \/ streamChar
    \/ streamFinish
    \/ streamError
    \/ streamCancelled

\* The event loop resumes every continuation that is ready (a handler, the
\* 2 ms timer, a settled fetch), and the upstream call returns or fails.
SpecFair == InitStream /\ [][NextStream]_vars /\ WF_vars(Producer)

(***************************************************************************)
(* Vocabulary of the properties.                                           *)
(***************************************************************************)
\* The dispatch (callOpenRouter / callGemini) has returned or thrown.
dispatchOver == pc \in {"dispatched", "done"} /\ outcome.st # "none"

\* An upstream attempt failed: a transport error or a non-success status.
upstreamFailed(reply) == reply.kind = "transport" \/ ~reply.ok

\* The error text an upstream attempt carries: the transport error message,
\* the raw body when it is not JSON, the error string (or the message of the
\* error object) when it is.
errorBodyText(reply) ==
    IF reply.kind = "json" THEN reply.error.s ELSE reply.text

\* The error text holds one of the quota phrases, whatever the case.
holdsQuotaPhrase(text) ==
    \E phrase \in QuotaPhrases : Includes(ToLowerCase(text), phrase)

\* The thrown error names `model` (`OpenRouter API error with model <model>: ...`).
failureNames(model) ==
    /\ outcome.st = "threw"
    /\ Len(outcome.content) >= 2
    /\ outcome.content[2] = model

\* The request went through the credential and contents checks of a route.
windowExtracted ==
    /\ route \in {"stream", "batch"}
    /\ pc # "start"
    /\ apiKey # EmptyStr
    /\ req.body.hasContents
    /\ Len(req.body.contents) > 0

hasUserMessage(h) == \E i \in 1..Len(h) : h[i].role = "user"

\* 1-based position of the last user message of h
lastUserPos(h) ==
    CHOOSE i \in 1..Len(h) :
        /\ h[i].role = "user"
        /\ \A j \in (i + 1)..Len(h) : h[j].role # "user"

\* 1-based position of the last model message before position u, 0 if none
lastModelPosBefore(h, u) ==
    IF \E i \in 1..(u - 1) : h[i].role = "model"
    THEN CHOOSE i \in 1..(u - 1) :
             /\ h[i].role = "model"
             /\ \A j \in (i + 1)..(u - 1) : h[j].role # "model"
    ELSE 0

\* Neither header of the request carries a credential.
credentialEmpty(r) ==
    /\ ~r.authorization.present \/ r.authorization.value \in {EmptyStr, S_Bearer}
    /\ ~r.googApiKey.present \/ r.googApiKey.value = EmptyStr

countFrames(kind) == Cardinality({i \in 1..Len(frames) : frames[i].kind = kind})

(***************************************************************************)
(* C1.  In callOpenRouter, whenever the primary-tier call fails with an    *)
(* error body containing "insufficient quota", exactly one further         *)
(* upstream call is made, against the fallback tier with the same messages *)
(* and credential, and the dispatch outcome is the one the second call's   *)
(* reply determines.                                                       *)
(***************************************************************************)
C1_FallbackOnInsufficientQuota ==
    ( /\ variant = "A"
      /\ dispatchOver
      /\ Len(replies) >= 1
      /\ upstreamFailed(replies[1])
      /\ Includes(errorBodyText(replies[1]), S_insufficient_quota) )
    => /\ Len(calls) = 2
       /\ Len(replies) = 2
       /\ calls[1].model = MODELS_free
       /\ calls[2] = Call(MODELS_paid, calls[1].messages, calls[1].apiKey)
       /\ outcome = finishOpenRouter(makeRequest(replies[2], MODELS_paid))

(***************************************************************************)
(* C2.  Within one dispatch at most two upstream calls are made, the       *)
(* primary first and then the fallback at most once; when the fallback     *)
(* attempt fails, whatever its error text, no further call is made and the *)
(* failure surfaced names the fallback model and carries the fallback      *)
(* attempt's error detail.                                                 *)
(***************************************************************************)
C2_FallbackFailureIsTerminal ==
    /\ Len(calls) <= 2
    /\ (variant = "A" /\ Len(calls) >= 1) => calls[1].model = MODELS_free
    /\ (variant = "A" /\ Len(calls) = 2) => calls[2].model = MODELS_paid
    /\ ( /\ variant = "A"
         /\ dispatchOver
         /\ Len(replies) = 2
         /\ upstreamFailed(replies[2]) )
       => /\ Len(calls) = 2
          /\ failureNames(MODELS_paid)
          /\ Includes(outcome.content, errorBodyText(replies[2]))

(***************************************************************************)
(* C3.  In callOpenRouter the fallback tier is called if and only if the   *)
(* primary attempt failed and its error text holds, case-insensitively,    *)
(* one of the five quota phrases; otherwise exactly one upstream call is   *)
(* made, and a primary failure without such a phrase surfaces a failure    *)
(* naming the primary model.                                               *)
(***************************************************************************)
C3_FallbackIffQuotaFailure ==
    ( /\ variant = "A"
      /\ dispatchOver
      /\ Len(replies) >= 1 )
    => /\ (Len(calls) = 2) <=>
              (upstreamFailed(replies[1]) /\ holdsQuotaPhrase(errorBodyText(replies[1])))
       /\ Len(calls) \in {1, 2}
       /\ (Len(calls) = 1 /\ upstreamFailed(replies[1])) => failureNames(MODELS_free)

C5_WindowEndsAtLastUser ==
    (windowExtracted /\ hasUserMessage(req.body.contents))
    => /\ Len(relevantHistory) > 0
       /\ relevantHistory[Len(relevantHistory)]
             = req.body.contents[lastUserPos(req.body.contents)]

C5_Witness ==
    /\ windowExtracted
    /\ Len(req.body.contents) = MaxHist
    /\ hasUserMessage(req.body.contents)
    /\ lastUserPos(req.body.contents) = 2
    /\ req.body.contents[1].role = "user"
    /\ req.body.contents[1] # req.body.contents[2]
    /\ Len(relevantHistory) > 0
    /\ relevantHistory[Len(relevantHistory)] = req.body.contents[2]

(***************************************************************************)
(* C6.  With u the position of the last user message: when a model message *)
(* precedes u, the window is the slice from the last such message through  *)
(* u; when none does, the window is every message from the start of the    *)
(* history through u.                                                      *)
(***************************************************************************)
C6_WindowIsSlice ==
    (windowExtracted /\ hasUserMessage(req.body.contents))
    => LET h == req.body.contents
           u == lastUserPos(h)
           m == lastModelPosBefore(h, u)
       IN  relevantHistory = Sub(h, IF m = 0 THEN 1 ELSE m, u)

lastReply == replies[Len(replies)]

imagePopulated(v, reply) ==
    /\ reply.kind = "json"
    /\ reply.ok
    /\ IF v = "A"
       THEN /\ reply.message.has
            /\ Len(reply.message.images) > 0
            /\ reply.message.images[1] # EmptyStr
       ELSE /\ reply.hasParts
            /\ \E i \in 1..Len(reply.parts) :
                   /\ reply.parts[i].hasInline
                   /\ StartsWith(reply.parts[i].mimeType, S_image_slash)

C9_ImagePrecedence ==
    (dispatchOver /\ Len(replies) >= 1 /\ imagePopulated(variant, lastReply))
    => /\ outcome.st = "returned"
       /\ outcome.type = "image"

C9_Witness ==
    /\ variant = "A"
    /\ dispatchOver
    /\ Len(replies) >= 1
    /\ imagePopulated(variant, lastReply)
    /\ lastReply.message.hasContent
    /\ lastReply.message.content = S_hello
    /\ outcome.type = "image"

(***************************************************************************)
(* C10.  Every stream synthesized from a result the dispatch returned      *)
(* holds exactly one finish frame, immediately followed by exactly one     *)
(* termination sentinel frame, which is the last frame: nothing lies       *)
(* between the two and nothing follows the sentinel.                       *)
(***************************************************************************)
C10_FinishThenSentinel ==
    (route = "stream" /\ closed /\ outcome.st = "returned")
    => /\ countFrames("finish") = 1
       /\ countFrames("sentinel") = 1
       /\ Len(frames) >= 2
       /\ frames[Len(frames)].kind = "sentinel"
       /\ frames[Len(frames) - 1].kind = "finish"

(***************************************************************************)
(* Streams that fail after they were opened.                               *)
(***************************************************************************)
\* C11: on the streaming route, when the dispatch raises after the stream is
\* open, the closed stream holds exactly one error event, which carries the
\* failure message, and its last frame is the termination sentinel.
C11_ErrorThenSentinel ==
    (route = "stream" /\ closed /\ outcome.st = "threw")
    => /\ countFrames("error") = 1
       /\ \E i \in 1..Len(frames) :
            frames[i].kind = "error" /\ frames[i].message = outcome.content
       /\ countFrames("sentinel") = 1
       /\ frames[Len(frames)].kind = "sentinel"

(***************************************************************************)
(* The frames of a stream that ran to its end.                             *)
(***************************************************************************)
\* The position of the finish event in the frames (0 when there is none)
finishPos ==
    IF \E i \in 1..Len(frames) : frames[i].kind = "finish"
    THEN CHOOSE i \in 1..Len(frames) :
            /\ frames[i].kind = "finish"
            /\ \A j \in 1..(i - 1) : frames[j].kind # "finish"
    ELSE 0

\* A content event whose only part is the text t
isTextEvent(f, t) == f.kind = "content" /\ f.parts = <<OutText(t)>>

\* C12: a closed stream of a Text result with n characters holds exactly
\* n + 2 frames: the n characters one per content event in order, then the
\* finish event, then the termination sentinel.
C12_TextFrames ==
    (route = "stream" /\ closed /\ outcome.st = "returned" /\ outcome.type = "text")
    => LET n == Len(outcome.content) IN
       /\ Len(frames) = n + 2
       /\ \A i \in 1..n : isTextEvent(frames[i], <<outcome.content[i]>>)
       /\ frames[n + 1].kind = "finish"
       /\ frames[n + 2].kind = "sentinel"

\* C13: a closed stream of an Image result holds, before its finish event,
\* exactly two content events: the whole lead-in text in one event, then the
\* inline media decoded from the data-URI.
C13_ImageFrames ==
    (route = "stream" /\ closed /\ outcome.st = "returned" /\ outcome.type = "image")
    => /\ finishPos = 3
       /\ isTextEvent(frames[1], S_lead_in)
       /\ frames[2].kind = "content"
       /\ Len(frames[2].parts) = 1
       /\ frames[2].parts[1].kind = "inlineData"
       /\ dataUri(frames[2].parts[1].mimeType, frames[2].parts[1].data) = outcome.content

(***************************************************************************)
(* Inline media through the data-URI and back.                             *)
(***************************************************************************)
\* The media types and base64 payloads the upstream replies carry
MediaTypes == { S_image_png }
Payloads == { S_QUJD, S_hi, EmptyStr }

\* The decoder of each variant: the match of main.ts, the split of part_000
decodeDataUri(v, content) ==
    IF v = "A" THEN matchDataUri(content) ELSE splitDecode(content)

\* C15: whenever dispatch returned an Image whose content is the data-URI
\* data:M;base64,D of a media type M and a payload D, the variant's decoder
\* applied to that content yields exactly mimeType M and data D.
C15_DataUriRoundTrip ==
    (outcome.st = "returned" /\ outcome.type = "image")
    => \A m \in MediaTypes, d \in Payloads :
         outcome.content = dataUri(m, d)
         => decodeDataUri(variant, outcome.content) = Decoded(TRUE, m, d)

\* C14: on the batch route every successful dispatch result is answered with
\* one candidate of role model, finishReason STOP and index 0; its parts are
\* the single text part with the content verbatim for a Text result, and the
\* lead-in text part followed by inlineData {M, D} for an Image result whose
\* content is data:M;base64,D.
C14_BatchCandidate ==
    (route = "batch" /\ pc = "done" /\ outcome.st = "returned")
    => /\ response.kind = "json"
       /\ Len(response.parts) = 1
       /\ response.parts[1].role = "model"
       /\ response.parts[1].finishReason = "STOP"
       /\ response.parts[1].index = 0
       /\ outcome.type = "text"
          => response.parts[1].parts = << OutText(outcome.content) >>
       /\ outcome.type = "image"
          => \A m \in MediaTypes, d \in Payloads :
               outcome.content = dataUri(m, d)
               => response.parts[1].parts = << OutText(S_lead_in), OutInline(m, d) >>

(***************************************************************************)
(* The request-direction codec as seen in the upstream calls.              *)
(***************************************************************************)
\* The parts of message i of the payload of the first upstream call
upstreamParts(i) ==
    IF variant = "A" THEN calls[1].messages[i].content
    ELSE calls[1].messages[i].parts

\* The text field of an upstream-shaped part, in the shape of either variant
\* (variant A marks a text part by type "text", variant B by the text key)
carriesText(up, v) ==
    IF variant = "A" THEN up.type = "text" /\ up.text = v
    ELSE up.hasText /\ up.text = v

\* A route issued an upstream call for the window it extracted
routeCalled == route \in {"stream", "batch"} /\ calls # <<>>

\* C16: for every Text part with value v of the window, in both variants,
\* the upstream-shaped part of the call carries a text field equal to v.
C16_TextVerbatim ==
    routeCalled
    => \A i \in 1..Len(relevantHistory) :
         \A j \in 1..Len(relevantHistory[i].parts) :
            LET p == relevantHistory[i].parts[j] IN
            (p.hasText /\ ~p.hasInline)
            => /\ Len(calls[1].messages) = Len(relevantHistory)
               /\ Len(upstreamParts(i)) = Len(relevantHistory[i].parts)
               /\ carriesText(upstreamParts(i)[j], p.text)

(***************************************************************************)
(* What dispatch makes of a success reply.                                 *)
(***************************************************************************)
\* The image parts of a variant-B reply, by position
imagePositions(reply) ==
    {i \in 1..Len(reply.parts) :
        reply.parts[i].hasInline /\ StartsWith(reply.parts[i].mimeType, S_image_slash)}

\* The reply is a success that carries two images or more
severalImages(v, reply) ==
    /\ reply.kind = "json"
    /\ reply.ok
    /\ IF v = "A"
       THEN /\ reply.message.has
            /\ Len(reply.message.images) >= 2
            /\ \A i \in 1..Len(reply.message.images) : reply.message.images[i] # EmptyStr
       ELSE reply.hasParts /\ Cardinality(imagePositions(reply)) >= 2

\* The data-URI of the first image of the reply, in reply order
firstImage(v, reply) ==
    IF v = "A" THEN reply.message.images[1]
    ELSE LET i == CHOOSE i \in imagePositions(reply) :
                     \A j \in imagePositions(reply) : i <= j
         IN  dataUri(reply.parts[i].mimeType, reply.parts[i].data)

\* C17: when the success reply carries several images, dispatch returns an
\* Image result whose content is the data-URI of the first image in reply
\* order.
C17_FirstImageWins ==
    (dispatchOver /\ Len(replies) >= 1 /\ severalImages(variant, lastReply))
    => /\ outcome.st = "returned"
       /\ outcome.type = "image"
       /\ outcome.content = firstImage(variant, lastReply)

\* The reply is a well-formed success: a JSON body under a success status
successReply(reply) == reply.kind = "json" /\ reply.ok

\* The success reply carries an image: an image URL or a data-URI content in
\* variant A, an image part in variant B
carriesImage(v, reply) ==
    IF v = "A"
    THEN /\ reply.message.has
         /\ \/ Len(reply.message.images) > 0
            \/ /\ reply.message.hasContent
               /\ StartsWith(reply.message.content, S_data_image)
    ELSE reply.hasParts /\ imagePositions(reply) # {}

\* The success reply carries text that is not the empty string
carriesNonEmptyText(v, reply) ==
    IF v = "A"
    THEN reply.message.has /\ reply.message.hasContent /\ reply.message.content # EmptyStr
    ELSE /\ reply.hasParts
         /\ \E i \in 1..Len(reply.parts) : TextTruthy(reply.parts[i])

\* C18: when the well-formed success reply carries neither an image nor
\* non-empty text (a reply without parts included), dispatch returns the
\* Text result with the no-content placeholder and does not raise.
C18_PlaceholderForEmptyReply ==
    (/\ dispatchOver
     /\ Len(replies) >= 1
     /\ successReply(lastReply)
     /\ ~carriesImage(variant, lastReply)
     /\ ~carriesNonEmptyText(variant, lastReply))
    => outcome = Returned("text", S_no_content)

\* C19: every result dispatch returns (callOpenRouter or callGemini), for
\* any upstream success payload, has a content that is not the empty string.
C19_ResultContentNonEmpty ==
    (dispatchOver /\ outcome.st = "returned") => outcome.content # EmptyStr

\* Dispatch returned for a success reply that holds no image and only blank
\* or no text: the case in which the content could have been empty.
C19_Witness ==
    /\ dispatchOver
    /\ outcome.st = "returned"
    /\ Len(replies) >= 1
    /\ successReply(lastReply)
    /\ ~carriesImage(variant, lastReply)
    /\ variant = "B"
    /\ lastReply.parts = <<TextPart(S_blank)>>
    /\ outcome.content = S_no_content

\* The parts of a message of an upstream payload, in the shape of the variant
payloadParts(m) == IF variant = "A" THEN m.content ELSE m.parts

\* C20: in every upstream call a route issues for a request that passed
\* validation, every message of the payload has at least one part.
C20_PayloadPartsNonEmpty ==
    routeCalled
    => \A c \in 1..Len(calls) :
         \A i \in 1..Len(calls[c].messages) :
            Len(payloadParts(calls[c].messages[i])) > 0

(***************************************************************************)
(* Image results that do not decode.                                       *)
(***************************************************************************)
\* The string has the form data:<mime>;base64,<payload>, <mime> not empty
isDataUri(s) ==
    /\ StartsWith(s, S_data_colon)
    /\ \E k \in (Len(S_data_colon) + 2)..Len(s) :
          Sub(s, k, k + Len(S_base64_marker) - 1) = S_base64_marker

\* C21: on the batch route, when the dispatch result is an Image whose
\* content is not a data-URI of the form data:<mime>;base64,<payload>, the
\* reply is the success payload whose only part is the generation-failed
\* text marker: no error is surfaced and no further upstream call is made.
C21_UndecodableImageMarker ==
    (/\ route = "batch"
     /\ pc = "done"
     /\ outcome.st = "returned"
     /\ outcome.type = "image"
     /\ ~isDataUri(outcome.content))
    => /\ response.kind = "json"
       /\ response.status = 200
       /\ response.error = EmptyStr
       /\ Len(response.parts) = 1
       /\ response.parts[1].parts = << OutText(S_image_failed) >>
       /\ Len(calls) = Len(replies)

\* The batch route answered an Image result that lacks the ;base64, marker
C21_Witness ==
    /\ route = "batch"
    /\ pc = "done"
    /\ outcome = Returned("image", S_image_no_marker)
    /\ response.kind = "json"
    /\ response.parts[1].parts = << OutText(S_image_failed) >>

(***************************************************************************)
(* Parts the codec does not recognise.                                     *)
(***************************************************************************)
\* The part has neither a non-empty text field nor an inline-media field
unrecognised(p) == ~TextTruthy(p) /\ ~p.hasInline

\* C22: for every part of the extracted window that has neither a non-empty
\* text nor inline media, in both variants, the upstream-shaped messages
\* hold that part unchanged at its place and the request goes on to
\* dispatch: it is not answered before an upstream call was issued.
C22_UnrecognisedPartPassedThrough ==
    (route \in {"stream", "batch"} /\ pc # "start")
    => \A i \in 1..Len(relevantHistory) :
         \A j \in 1..Len(relevantHistory[i].parts) :
            unrecognised(relevantHistory[i].parts[j])
            => /\ Len(messages) = Len(relevantHistory)
               /\ Len(payloadParts(messages[i])) = Len(relevantHistory[i].parts)
               /\ payloadParts(messages[i])[j] = relevantHistory[i].parts[j]
               /\ pc = "done" => calls # <<>>

(***************************************************************************)
(* Client cancellation and the end of the stream.                          *)
(***************************************************************************)
\* The enqueue calls that did not add a frame: each frame is one successful
\* call of controller.enqueue
failedEnqueues == enqueueCalls - Len(frames)

\* C23: once the client has disconnected while the producer was awaiting
\* the upstream call or pausing between two character events, the producer
\* makes no further call of enqueue and no upstream call is left in flight.
C23_CancelStopsProducer ==
    (route = "stream" /\ cancelled)
    => /\ failedEnqueues = 0
       /\ ~awaitingUpstream

\* The streaming route has answered with the event stream
streamOpened == route = "stream" /\ response.kind = "stream"

\* C24: on the streaming route, as long as the client does not cancel, an
\* opened stream whose upstream call returns or fails is eventually closed;
\* it is closed by exactly one call of controller.close(), whether the
\* emission succeeded or the upstream failed, and once it is closed no
\* frame is enqueued and it stays closed.
C24_StreamClosedOnce ==
    /\ [](closed => (closeCalls = 1 /\ failedEnqueues = 0))
    /\ [][closed => (closed' /\ frames' = frames /\ enqueueCalls' = enqueueCalls
                     /\ closeCalls' = closeCalls)]_vars
    /\ (streamOpened /\ ~cancelled) ~> (closed \/ cancelled)

\* A stream closed after the upstream call failed, never cancelled
C24_Witness ==
    /\ streamOpened
    /\ ~cancelled
    /\ closed
    /\ outcome.st = "threw"
    /\ closeCalls = 1
    /\ countFrames("error") = 1

=============================================================================
